---- MODULE Spec2Model ----
(***************************************************************************)
(* Model of download.py: the interval time arithmetic (Interval.match,    *)
(* Interval.duration), the construction of the registry from the config   *)
(* (parse_main, parse_spec, parse_interval, spec_order), the building of   *)
(* one command (Spec.cmdargs) and the run loop (run).                      *)
(*                                                                         *)
(* Time is counted in units of half an hour: an instant is the number of   *)
(* units since midnight of day 0, a time of day is a number of units since *)
(* midnight.  A python dict is a sequence of <<key, value>> pairs with     *)
(* distinct keys, in insertion order.                                      *)
(***************************************************************************)
EXTENDS Integers, Sequences, FiniteSets, TLC

VARIABLES
    iv,             \* the Interval under test (Interval.__init__)
    call,           \* the last call on iv: operation, argument, result
    cp,             \* the ConfigParser, as parse_main leaves it
    downloads,      \* the DownloadData registry built by parse_main
    jump_list,      \* run(jump_list=...)
    dry,            \* run(dry=...)
    use_intervals,  \* run(use_intervals=...)
    no_rtouch,      \* run(no_rtouch=...)
    now,            \* the wall clock, read by datetime.datetime.now()
    pc,             \* position of run()
    idx,            \* position of the iter_enabled_specs generator (1-based)
    cur,            \* what cmdargs built for the command at hand (args, kwargs, merged options)
    log,            \* what the run did so far: commands printed, processes run, hooks called
    err             \* the exception that ended the run, or None

vars == <<iv, call, cp, downloads, jump_list, dry, use_intervals, no_rtouch,
          now, pc, idx, cur, log, err>>

ivars == <<iv, call>>
rvars == <<cp, downloads, jump_list, dry, use_intervals, no_rtouch,
           now, pc, idx, cur, log, err>>

----------------------------------------------------------------------------
(* Bounds and units *)

\* number of calendar days the clock and the date-time bounds range over
MaxDays == 2

\* units of time in one day (datetime.timedelta(days=1)), a unit being 30 minutes
Day == 48

\* seconds in one unit of time (timedelta.total_seconds)
SecondsPerUnit == 1800

None == "None"

----------------------------------------------------------------------------
(* python dicts *)

HasKey(d, k) == \E i \in DOMAIN d : d[i][1] = k

Get(d, k) == IF HasKey(d, k) THEN d[CHOOSE i \in DOMAIN d : d[i][1] = k][2] ELSE None

DictKeys(d) == [i \in DOMAIN d |-> d[i][1]]

DictSet(d, k, v) ==
    IF HasKey(d, k)
    THEN [i \in DOMAIN d |-> IF d[i][1] = k THEN <<k, v>> ELSE d[i]]
    ELSE Append(d, <<k, v>>)

RECURSIVE DictUpdate(_, _)
DictUpdate(d, other) ==
    IF other = <<>> THEN d
    ELSE DictUpdate(DictSet(d, Head(other)[1], Head(other)[2]), Tail(other))

DictDel(d, k) == SelectSeq(d, LAMBDA p : p[1] # k)

----------------------------------------------------------------------------
(* Interval *)

TimeOfDay(v) == [kind |-> "time", v |-> v]
DateTime(v) == [kind |-> "datetime", v |-> v]

Interval(from_dt, to_dt) == [from_dt |-> from_dt, to_dt |-> to_dt]

\* dt.date(), as the instant of that date's midnight
DateOf(dt) == (dt \div Day) * Day

\* datetime.datetime.combine(dt.date(), bound) when bound is a datetime.time
Combine(dt, bound) == IF bound.kind = "time" THEN DateOf(dt) + bound.v ELSE bound.v

\* duration without the roll of `to` to the following day
duration_same_day(self, dt) ==
    LET to_dt == Combine(dt, self.to_dt)
    IN  IF dt <= to_dt
        THEN to_dt - dt
        ELSE LET next_midnight == DateOf(dt) + Day
             IN  (next_midnight - dt) + (to_dt - next_midnight)

duration(self, dt) ==
    LET to_dt == Combine(dt, self.to_dt)
    IN  IF dt <= to_dt
        THEN to_dt - dt
        ELSE LET to_next == to_dt + Day
                 next_midnight == DateOf(dt) + Day
             IN  (next_midnight - dt) + (to_next - next_midnight)

\* match with the branch test written from_dt <= to_dt
match_le(self, dt) ==
    LET from_dt == Combine(dt, self.from_dt)
        to_dt == Combine(dt, self.to_dt)
    IN  IF from_dt <= to_dt
        THEN from_dt <= dt /\ dt <= to_dt
        ELSE dt >= from_dt \/ dt <= to_dt

\* match with the wrapping branch written as a conjunction
match_and(self, dt) ==
    LET from_dt == Combine(dt, self.from_dt)
        to_dt == Combine(dt, self.to_dt)
    IN  IF from_dt < to_dt
        THEN from_dt <= dt /\ dt <= to_dt
        ELSE dt >= from_dt /\ dt <= to_dt

match(self, dt) ==
    LET from_dt == Combine(dt, self.from_dt)
        to_dt == Combine(dt, self.to_dt)
    IN  IF from_dt < to_dt
        THEN from_dt <= dt /\ dt <= to_dt
        ELSE dt >= from_dt \/ dt <= to_dt

----------------------------------------------------------------------------
(* The interval arithmetic on its own: an interval is constructed, then     *)
(* match and duration are called on it with any instant.                    *)

\* bounds as the config gives them: whole hours, as a time of day or as a date-time
HourTimes == {2 * h : h \in 0 .. 23}
SampleTimes == {0, 2, 24, 46}
BoundValues ==
    {TimeOfDay(v) : v \in HourTimes}
    \cup {DateTime(d * Day + v) : d \in 0 .. MaxDays - 1, v \in SampleTimes}

Instants == 0 .. MaxDays * Day - 1

NoInterval == Interval(TimeOfDay(0), TimeOfDay(0))
Idle == [op |-> "idle", dt |-> 0, matched |-> FALSE, td |-> 0]

\* no run is under way
RunIdle ==
    /\ cp = None /\ downloads = None /\ jump_list = <<>>
    /\ dry = FALSE /\ use_intervals = FALSE /\ no_rtouch = FALSE
    /\ now = 0 /\ pc = "idle" /\ idx = 0 /\ cur = None /\ log = <<>> /\ err = None

IntervalInit ==
    /\ iv \in {Interval(f, t) : f \in BoundValues, t \in BoundValues}
    /\ call = Idle
    /\ RunIdle

MatchCall(dt) ==
    /\ call.op = "idle"
    /\ call' = [op |-> "match", dt |-> dt, matched |-> match(iv, dt), td |-> 0]
    /\ UNCHANGED <<iv, rvars>>

DurationCall(dt) ==
    /\ call.op = "idle"
    /\ call' = [op |-> "duration", dt |-> dt, matched |-> FALSE, td |-> duration(iv, dt)]
    /\ UNCHANGED <<iv, rvars>>

Return ==
    /\ call.op # "idle"
    /\ call' = Idle
    /\ UNCHANGED <<iv, rvars>>

IntervalNext ==
    \/ \E dt \in Instants : MatchCall(dt)
    \/ \E dt \in Instants : DurationCall(dt)
    \/ Return

SpecInterval == IntervalInit /\ [][IntervalNext]_vars

----------------------------------------------------------------------------
(* ConfigParser: a section proxy resolves a key in the section itself, then  *)
(* in the default section `downloads`; its keys are its own, then those of   *)
(* the default section it does not define itself.                            *)
(* cp is a record: the root keys parse_main pops (python_exe, keys,          *)
(* use_intervals, interval_keys) are fields, `defaults` holds the remaining  *)
(* keys of the default section, `sections` maps a section name to its own    *)
(* keys.                                                                     *)

SectionHas(c, name, key) == HasKey(c.sections[name], key) \/ HasKey(c.defaults, key)

SectionGet(c, name, key) ==
    IF HasKey(c.sections[name], key) THEN Get(c.sections[name], key)
    ELSE Get(c.defaults, key)

SectionOptions(c, name) ==
    DictKeys(c.sections[name])
    \o DictKeys(SelectSeq(c.defaults, LAMBDA p : ~HasKey(c.sections[name], p[1])))

SectionItems(c, name) ==
    LET opts == SectionOptions(c, name)
    IN  [i \in DOMAIN opts |-> <<opts[i], SectionGet(c, name, opts[i])>>]

\* del section[key]: removes the section's own key
SectionDel(c, name, key) == [c EXCEPT !.sections[name] = DictDel(@, key)]

\* ConfigParser.getboolean, with None for a key that is not set
getboolean(raw) ==
    IF raw = None THEN None
    ELSE IF raw \in {"1", "yes", "true", "on"} THEN "True"
    ELSE IF raw \in {"0", "no", "false", "off"} THEN "False"
    ELSE "ValueError"

\* python's truth value of None, a bool or a string
Truthy(x) == x \notin {None, "False", ""}

----------------------------------------------------------------------------
(* Batch files *)

Whitespace == {" ", "\t", "\n"}

RECURSIVE lstrip(_)
lstrip(line) ==
    IF line # <<>> /\ Head(line) \in Whitespace THEN lstrip(Tail(line)) ELSE line

RECURSIVE rstrip(_)
rstrip(line) ==
    IF line # <<>> /\ line[Len(line)] \in Whitespace
    THEN rstrip(SubSeq(line, 1, Len(line) - 1))
    ELSE line

strip(line) == rstrip(lstrip(line))

startswith(line, c) == line # <<>> /\ Head(line) = c

\* the files batch options name, as sequences of lines, a line a sequence of characters
Files ==
    ("list.txt" :> << <<"#", " ", "c", "\n">>, <<"\n">>, <<" ", "u", " ", "\n">> >>)
    @@ ("empty.txt" :> << <<"\n">>, <<" ", "\t", "\n">>, <<"#", "c", "\n">>,
                          <<" ", "#", "u", "\n">>, <<"#">> >>)

RECURSIVE AnyNonEmpty(_)
AnyNonEmpty(lines) ==
    IF lines = <<>> THEN FALSE
    ELSE LET line == strip(Head(lines))
         IN  IF line # <<>> /\ ~startswith(line, "#") THEN TRUE
             ELSE AnyNonEmpty(Tail(lines))

\* AnyNonEmpty without the strip of the line
RECURSIVE AnyNonEmptyRaw(_)
AnyNonEmptyRaw(lines) ==
    IF lines = <<>> THEN FALSE
    ELSE LET line == Head(lines)
         IN  IF line # <<>> /\ ~startswith(line, "#") THEN TRUE
             ELSE AnyNonEmptyRaw(Tail(lines))

\* has_non_empty without the strip of each line
has_non_empty_raw(path) == AnyNonEmptyRaw(Files[path])

\* True, or None (here FALSE) when the file holds no such line
has_non_empty(path) == AnyNonEmpty(Files[path])

----------------------------------------------------------------------------
(* Building the registry *)

\* special string to indicate ini option is a flag
IS_FLAG_VALUE == ":flag:"

\* the strings strptime('%H:%M') accepts, with the time of day they give
ClockTimes ==
    ("00:00" :> 0) @@ ("00:30" :> 1) @@ ("01:00" :> 2) @@ ("01:30" :> 3)
    @@ ("12:00" :> 24) @@ ("23:00" :> 46)

\* the strings strptime('%Y-%m-%d %H:%M') accepts, with the instant they give
CalendarTimes == ("2024-01-01 00:30" :> 1) @@ ("2024-01-02 00:30" :> Day + 1)

resolve_datetime(string) ==
    IF string \in DOMAIN ClockTimes THEN TimeOfDay(ClockTimes[string])
    ELSE IF string \in DOMAIN CalendarTimes THEN DateTime(CalendarTimes[string])
    ELSE [kind |-> "ValueError", v |-> 0]

\* parse_interval: the tuple (section.name, Interval, remaining), and cp after the pops
parse_interval(c, name) ==
    LET from_dt == resolve_datetime(SectionGet(c, name, "from"))
        c1 == SectionDel(c, name, "from")
        to_dt == resolve_datetime(SectionGet(c1, name, "to"))
        c2 == SectionDel(c1, name, "to")
        remaining == SelectSeq(SectionItems(c2, name), LAMBDA p : p[1] \notin {"output"})
    IN  [item |-> [name |-> name, interval |-> Interval(from_dt, to_dt),
                   remaining |-> remaining],
         cp |-> c2]

\* parse_spec: the Spec, and cp after the pops
parse_spec(c, name) ==
    LET enabled == getboolean(SectionGet(c, name, "enabled"))
        c1 == SectionDel(c, name, "enabled")
        urls == SectionGet(c1, name, "urls")
        c2 == SectionDel(c1, name, "urls")
    IN  [item |-> [name |-> name, enabled |-> enabled, urls |-> urls,
                   extra |-> SectionItems(c2, name)],
         cp |-> c2]

\* list(map(parse_interval, ...)), threading cp through the calls
RECURSIVE ParseIntervals(_, _, _)
ParseIntervals(c, names, acc) ==
    IF names = <<>> THEN [items |-> acc, cp |-> c]
    ELSE LET r == parse_interval(c, Head(names))
         IN  ParseIntervals(r.cp, Tail(names), Append(acc, r.item))

RECURSIVE specs_from_config(_, _, _)
specs_from_config(c, keys, acc) ==
    IF keys = <<>> THEN [items |-> acc, cp |-> c]
    ELSE LET r == parse_spec(c, Head(keys))
         IN  specs_from_config(r.cp, Tail(keys), Append(acc, r.item))

\* math.inf: above every index of the jump list
inf(jumps) == Len(jumps)

\* spec_order where a specification the jump list does not name sorts first
spec_order_first(jumps, spec) ==
    IF \E i \in DOMAIN jumps : jumps[i] = spec.name
    THEN (CHOOSE i \in DOMAIN jumps :
            jumps[i] = spec.name /\ \A j \in 1 .. i - 1 : jumps[j] # spec.name) - 1
    ELSE 0

\* spec_order(jumps)(spec): jumps.index(spec.name), or math.inf
spec_order(jumps, spec) ==
    IF \E i \in DOMAIN jumps : jumps[i] = spec.name
    THEN (CHOOSE i \in DOMAIN jumps :
            jumps[i] = spec.name /\ \A j \in 1 .. i - 1 : jumps[j] # spec.name) - 1
    ELSE inf(jumps)

\* sorted(specs, key=spec_order(jumps)): a stable sort, here by insertion
RECURSIVE sorted(_, _, _)
sorted(specs, jumps, acc) ==
    IF specs = <<>> THEN acc
    ELSE LET x == Head(specs)
             kx == spec_order(jumps, x)
         IN  sorted(Tail(specs), jumps,
                    SelectSeq(acc, LAMBDA y : spec_order(jumps, y) <= kx)
                    \o <<x>>
                    \o SelectSeq(acc, LAMBDA y : spec_order(jumps, y) > kx))

SeqToSet(q) == {q[i] : i \in DOMAIN q}

NoDownloads == [python_exe |-> None, specs |-> <<>>, jump_list |-> <<>>, intervals |-> <<>>]

\* parse_main: the DownloadData, cp after the pops, and the exception if one is raised
parse_main(c, jumps) ==
    IF ~HasKey(c.defaults, "download-archive") \/ c.keys = <<>>
    THEN [err |-> "AssertionError", downloads |-> NoDownloads, cp |-> c]
    ELSE IF \E i \in DOMAIN jumps : jumps[i] \notin SeqToSet(c.keys)
    THEN [err |-> "ValueError: Key in jump list not found.",
          downloads |-> NoDownloads, cp |-> c]
    ELSE LET ivs == IF ~Truthy(getboolean(c.use_intervals))
                    THEN [items |-> <<>>, cp |-> c]
                    ELSE ParseIntervals(c, c.interval_keys, <<>>)
             sp == specs_from_config(ivs.cp, c.keys, <<>>)
         IN  [err |-> None,
              downloads |-> [python_exe |-> c.python_exe,
                             specs |-> sorted(sp.items, jumps, <<>>),
                             jump_list |-> jumps,
                             intervals |-> ivs.items],
              cp |-> sp.cp]

----------------------------------------------------------------------------
(* Building one command *)

\* list(downloads.applicable_interval(now))
applicable_interval(dl, t) == SelectSeq(dl.intervals, LAMBDA it : match(it.interval, t))

MultipleMatching == "ValueError: Multiple matching intervals."

\* update_kwargs_for_timeout where the specification's keys win over the interval's
update_kwargs_spec_wins(dl, t, extra) ==
    LET matching == applicable_interval(dl, t)
    IN  IF Len(matching) > 1
        THEN [err |-> MultipleMatching, has_timeout |-> FALSE, timeout |-> 0, extra |-> extra]
        ELSE IF Len(matching) = 1
        THEN [err |-> None, has_timeout |-> TRUE,
              timeout |-> duration(matching[1].interval, t) * SecondsPerUnit,
              extra |-> DictUpdate(matching[1].remaining, extra)]
        ELSE [err |-> None, has_timeout |-> FALSE, timeout |-> 0, extra |-> extra]

\* update_kwargs_for_timeout that takes the first matching interval when several match
update_kwargs_first_match(dl, t, extra) ==
    LET matching == applicable_interval(dl, t)
    IN  IF Len(matching) >= 1
        THEN [err |-> None, has_timeout |-> TRUE,
              timeout |-> duration(matching[1].interval, t) * SecondsPerUnit,
              extra |-> DictUpdate(extra, matching[1].remaining)]
        ELSE [err |-> None, has_timeout |-> FALSE, timeout |-> 0, extra |-> extra]

\* Spec.update_kwargs_for_timeout: what it leaves in run_kwargs and extra, or the exception
update_kwargs_for_timeout(dl, t, extra) ==
    LET matching == applicable_interval(dl, t)
    IN  IF Len(matching) > 1
        THEN [err |-> MultipleMatching, has_timeout |-> FALSE, timeout |-> 0, extra |-> extra]
        ELSE IF Len(matching) = 1
        THEN [err |-> None, has_timeout |-> TRUE,
              timeout |-> duration(matching[1].interval, t) * SecondsPerUnit,
              extra |-> DictUpdate(extra, matching[1].remaining)]
        ELSE [err |-> None, has_timeout |-> FALSE, timeout |-> 0, extra |-> extra]

RECURSIVE add_remaining(_, _)
add_remaining(args, data) ==
    IF data = <<>> THEN args
    ELSE LET key == Head(data)[1]
             val == Head(data)[2]
         IN  IF key = "urls" \/ val = None THEN add_remaining(args, Tail(data))
             ELSE IF val = IS_FLAG_VALUE
             THEN add_remaining(Append(args, "--" \o key), Tail(data))
             ELSE add_remaining(args \o <<"--" \o key, val>>, Tail(data))

\* Spec.cmdargs at instant t: (args, run_kwargs), with the merged options, or the exception
cmdargs(self, dlargs, dl, use_iv, t) ==
    LET args == <<dl.python_exe, "-m", "yt_dlp">>
        u == IF use_iv THEN update_kwargs_for_timeout(dl, t, self.extra)
             ELSE [err |-> None, has_timeout |-> FALSE, timeout |-> 0, extra |-> self.extra]
        args1 == add_remaining(args, u.extra) \o dlargs
    IN  [err |-> u.err,
         args |-> IF Truthy(self.urls) THEN Append(args1, self.urls) ELSE args1,
         has_timeout |-> u.has_timeout,
         timeout |-> u.timeout,
         extra |-> u.extra]

----------------------------------------------------------------------------
(* The run: run() reads the config, builds the registry and loops over the   *)
(* specifications iter_enabled_specs yields.                                  *)

\* number of specifications the root key `keys` names in a run
NumSpecs == 2

\* the clock of a run ranges over 0 .. MaxNow
MaxNow == 2

\* longest `keys` and longest jump list of the registries whose order is checked
MaxKeys == 3
MaxJumps == 2

SpecNames == {"a", "b", "c", "d", "e"}
IntervalNames == <<"night", "late", "wrap">>

Sections ==
    ("a" :> << <<"enabled", "true">>, <<"urls", "http://u">>, <<"rate", "2M">>,
               <<"format", "best">> >>)
    @@ ("b" :> << <<"enabled", "yes">>, <<"batch", "list.txt">>,
                  <<"no-overwrites", IS_FLAG_VALUE>> >>)
    @@ ("c" :> << <<"enabled", "true">>, <<"batch", "empty.txt">> >>)
    @@ ("d" :> << <<"enabled", "true">>, <<"format", "worst">> >>)
    @@ ("e" :> << <<"enabled", "false">>, <<"urls", "http://v">> >>)
    @@ ("night" :> << <<"from", "00:00">>, <<"to", "01:00">>, <<"rate", "500K">> >>)
    @@ ("late" :> << <<"from", "00:30">>, <<"to", "01:30">>, <<"retries", "3">> >>)
    @@ ("wrap" :> << <<"from", "23:00">>, <<"to", "00:00">>,
                     <<"output", "night/%(title)s">> >>)

\* the default section `downloads` without the keys parse_main pops
Defaults ==
    << <<"download-archive", "archive.txt">>, <<"output", "%(title)s">>, <<"rate", "1M">> >>

Config(keys, interval_keys) ==
    [python_exe |-> "python", keys |-> keys, use_intervals |-> "true",
     interval_keys |-> interval_keys, defaults |-> Defaults, sections |-> Sections]

\* the unrecognised command line arguments, forwarded to every invocation
DlArgs == <<"--no-progress">>

\* import rtouch succeeds: rtouch.py lies beside download.py
rtouch == TRUE

NoCmd == [i |-> 0, now |-> 0, args |-> <<>>, has_timeout |-> FALSE, timeout |-> 0,
          extra |-> <<>>]

IntervalIdle == iv = NoInterval /\ call = Idle

RunInit ==
    /\ IntervalIdle
    /\ \E keys \in [1 .. NumSpecs -> SpecNames], chosen \in SUBSET SeqToSet(IntervalNames) :
          /\ \A i, j \in 1 .. NumSpecs : keys[i] = keys[j] => i = j
          /\ cp = Config(keys, SelectSeq(IntervalNames, LAMBDA n : n \in chosen))
    /\ downloads = NoDownloads
    /\ jump_list \in {<<>>, <<"b">>}
    /\ dry \in BOOLEAN
    /\ use_intervals \in BOOLEAN
    /\ no_rtouch \in BOOLEAN
    /\ now \in 0 .. MaxNow
    /\ pc = "parse"
    /\ idx = 0
    /\ cur = NoCmd
    /\ log = <<>>
    /\ err = None

\* run, lines 331-337: the registry is built, or parse_main raises
ParseMain ==
    /\ pc = "parse"
    /\ LET r == parse_main(cp, jump_list)
       IN  /\ cp' = r.cp
           /\ downloads' = r.downloads
           /\ err' = r.err
           /\ pc' = IF r.err = None THEN "loop" ELSE "error"
           /\ idx' = IF r.err = None THEN 1 ELSE idx
    /\ UNCHANGED <<ivars, jump_list, dry, use_intervals, no_rtouch, now, cur, log>>

\* whether iter_enabled_specs yields the specification
yields(spec) ==
    /\ Truthy(spec.enabled)
    /\ \/ Truthy(spec.urls)
       \/ LET batch == Get(spec.extra, "batch")
          IN  Truthy(batch) /\ has_non_empty(batch)

\* iter_enabled_specs passes over a specification it does not yield
Skip ==
    /\ pc = "loop"
    /\ idx <= Len(downloads.specs)
    /\ ~yields(downloads.specs[idx])
    /\ idx' = idx + 1
    /\ UNCHANGED <<ivars, cp, downloads, jump_list, dry, use_intervals, no_rtouch,
                   now, pc, cur, log, err>>

\* the loop body up to subprocess.run: the command is built and, in dry mode, printed
Build ==
    /\ pc = "loop"
    /\ idx <= Len(downloads.specs)
    /\ yields(downloads.specs[idx])
    /\ LET r == cmdargs(downloads.specs[idx], DlArgs, downloads, use_intervals, now)
       IN  IF r.err # None
           THEN /\ pc' = "error"
                /\ err' = r.err
                /\ UNCHANGED <<idx, cur, log>>
           ELSE /\ cur' = [i |-> idx, now |-> now, args |-> r.args,
                           has_timeout |-> r.has_timeout, timeout |-> r.timeout,
                           extra |-> r.extra]
                /\ err' = err
                /\ IF dry
                   THEN /\ log' = Append(log, [ev |-> "print", i |-> idx, out |-> None,
                                               now |-> now])
                        /\ idx' = idx + 1
                        /\ pc' = pc
                   ELSE /\ pc' = "run"
                        /\ UNCHANGED <<idx, log>>
    /\ UNCHANGED <<ivars, cp, downloads, jump_list, dry, use_intervals, no_rtouch, now>>

\* how subprocess.run can end: the process exits with status 0 or not, the timeout
\* expires, the user interrupts, the process cannot be launched
Outcomes == {"exit0", "exit1", "timeout", "interrupt", "oserror"}

\* run_outcome where a timeout is followed by the hook
run_outcome_timeout_hook(out, use_rtouch) ==
    IF out \in {"exit0", "exit1", "timeout"} THEN (IF use_rtouch /\ rtouch THEN "hook" ELSE "next")
    ELSE IF out = "interrupt" THEN "break"
    ELSE "raise"

\* run_outcome where a non-zero exit status raises (subprocess.run(check=True))
run_outcome_check(out, use_rtouch) ==
    IF out = "exit0" THEN (IF use_rtouch /\ rtouch THEN "hook" ELSE "next")
    ELSE IF out = "timeout" THEN "next"
    ELSE IF out = "interrupt" THEN "break"
    ELSE "raise"

\* the try statement around subprocess.run: what the loop does after each outcome
run_outcome(out, use_rtouch) ==
    IF out \in {"exit0", "exit1"} THEN (IF use_rtouch /\ rtouch THEN "hook" ELSE "next")
    ELSE IF out = "timeout" THEN "next"
    ELSE IF out = "interrupt" THEN "break"
    ELSE "raise"

\* subprocess.run(args, **kwargs), which takes `elapsed` units of time, and the
\* try statement around it
Exec(out, elapsed) ==
    /\ pc = "run"
    /\ now + elapsed <= MaxNow
    /\ out = "timeout" => cur.has_timeout /\ elapsed * SecondsPerUnit >= cur.timeout
    /\ (out \in {"exit0", "exit1", "interrupt"} /\ cur.has_timeout) =>
          elapsed * SecondsPerUnit <= cur.timeout
    /\ out = "oserror" => elapsed = 0
    /\ now' = now + elapsed
    /\ log' = Append(log, [ev |-> "run", i |-> idx, out |-> out, now |-> cur.now])
    /\ LET step == run_outcome(out, ~no_rtouch)
       IN  /\ pc' = CASE step = "hook" -> "hook"
                      [] step = "next" -> "loop"
                      [] step = "break" -> "done"
                      [] OTHER -> "error"
           /\ idx' = IF step = "next" THEN idx + 1 ELSE idx
           /\ err' = IF step = "raise" THEN "OSError" ELSE err
    /\ cur' = NoCmd
    /\ UNCHANGED <<ivars, cp, downloads, jump_list, dry, use_intervals, no_rtouch>>

\* rtouch.run(root_path=os.getcwd())
Hook ==
    /\ pc = "hook"
    /\ log' = Append(log, [ev |-> "hook", i |-> idx, out |-> None, now |-> now])
    /\ idx' = idx + 1
    /\ pc' = "loop"
    /\ UNCHANGED <<ivars, cp, downloads, jump_list, dry, use_intervals, no_rtouch,
                   now, cur, err>>

\* the generator is exhausted: run returns
Finish ==
    /\ pc = "loop"
    /\ idx > Len(downloads.specs)
    /\ pc' = "done"
    /\ UNCHANGED <<ivars, cp, downloads, jump_list, dry, use_intervals, no_rtouch,
                   now, idx, cur, log, err>>

Next ==
    \/ ParseMain
    \/ Skip
    \/ Build
    \/ \E out \in Outcomes, elapsed \in 0 .. MaxNow : Exec(out, elapsed)
    \/ Hook
    \/ Finish

Spec == RunInit /\ [][Next]_vars

----------------------------------------------------------------------------
(* The order of the registry on its own: parse_main on any `keys` and any    *)
(* jump list over three sections.                                             *)

OrderNames == {"a", "b", "c"}

SeqsUpTo(S, n) == UNION {[1 .. k -> S] : k \in 0 .. n}

OrderInit ==
    /\ IntervalIdle
    /\ \E keys \in SeqsUpTo(OrderNames, MaxKeys) \ {<<>>} : cp = Config(keys, <<>>)
    /\ downloads = NoDownloads
    /\ jump_list \in SeqsUpTo(OrderNames, MaxJumps)
    /\ dry = FALSE /\ use_intervals = FALSE /\ no_rtouch = FALSE
    /\ now = 0
    /\ pc = "parse"
    /\ idx = 0
    /\ cur = NoCmd
    /\ log = <<>>
    /\ err = None

OrderNext == ParseMain

SpecOrder == OrderInit /\ [][OrderNext]_vars

----------------------------------------------------------------------------
(* Claims about the interval arithmetic, checked under SpecInterval *)

\* a bound of the interval under test as an instant on the calendar date of instant t
OnDateOf(t, bound) == IF bound.kind = "time" THEN t - (t % Day) + bound.v ELSE bound.v
FromAt(t) == OnDateOf(t, iv.from_dt)
ToAt(t) == OnDateOf(t, iv.to_dt)
Matched == call.op = "match"
Measured == call.op = "duration"

\* C1 (as amended): match(t) on an interval whose normalised bounds satisfy
\* from < to is true iff from <= t <= to; when from = to, match(t) is true
\* for every t.
C1_MatchNonWrapping ==
    Matched =>
        /\ FromAt(call.dt) < ToAt(call.dt) =>
              (call.matched <=> (FromAt(call.dt) <= call.dt /\ call.dt <= ToAt(call.dt)))
        /\ FromAt(call.dt) = ToAt(call.dt) => call.matched

\* C1 as stated: whenever from <= to (from = to included), match(t) iff from <= t <= to.
C1_AsStated ==
    (Matched /\ FromAt(call.dt) <= ToAt(call.dt)) =>
        (call.matched <=> (FromAt(call.dt) <= call.dt /\ call.dt <= ToAt(call.dt)))

\* 09:00-17:00 matched at 12:00 of the second day
C1_Witness ==
    /\ Matched /\ call.matched
    /\ iv = Interval(TimeOfDay(18), TimeOfDay(34)) /\ call.dt = Day + 24

\* C2: match(t) on an interval whose normalised bounds satisfy from > to is
\* true iff t >= from or t <= to; from=23:00, to=01:00 matches 23:30 and 00:30
\* and does not match 12:00.
C2_MatchWrapping ==
    Matched =>
        /\ FromAt(call.dt) > ToAt(call.dt) =>
              (call.matched <=> (call.dt >= FromAt(call.dt) \/ call.dt <= ToAt(call.dt)))
        /\ iv = Interval(TimeOfDay(46), TimeOfDay(2)) =>
              /\ call.dt % Day \in {47, 1} => call.matched
              /\ call.dt % Day = 24 => ~call.matched

\* 23:00-01:00 refuses 12:00
C2_Witness ==
    /\ Matched /\ ~call.matched
    /\ iv = Interval(TimeOfDay(46), TimeOfDay(2)) /\ call.dt = 24

\* C3: duration(t), with `to` normalised to the date of t, is to - t when
\* t <= to and otherwise (next midnight - t) + (to on the following day - next
\* midnight); when `to` is a time of day this is the time from t to the next
\* instant whose time of day is `to`; to=01:00 and t=23:30 gives 1.5 hours.
C3_Duration ==
    Measured =>
        LET t == call.dt
            midnight == t - (t % Day) + Day
        IN  /\ t <= ToAt(t) => call.td = ToAt(t) - t
            /\ t > ToAt(t) => call.td = (midnight - t) + ((ToAt(t) + Day) - midnight)
            /\ iv.to_dt.kind = "time" =>
                  /\ call.td \in 0 .. Day - 1
                  /\ (t + call.td) % Day = iv.to_dt.v
            /\ (iv.to_dt = TimeOfDay(2) /\ t % Day = 47) => call.td * SecondsPerUnit = 5400

\* to=01:00 measured at 23:30
C3_Witness ==
    /\ Measured /\ iv.to_dt = TimeOfDay(2) /\ call.dt = 47 /\ call.td = 3

----------------------------------------------------------------------------
(* Claims about the order of the registry, checked under SpecOrder *)

Built == pc \notin {"idle", "parse"} /\ err \notin {"AssertionError", "ValueError: Key in jump list not found."}
RegistryNames == [i \in DOMAIN downloads.specs |-> downloads.specs[i].name]
Listed(name) == \E i \in DOMAIN jump_list : jump_list[i] = name
FirstPosition(name) == CHOOSE i \in DOMAIN jump_list :
    jump_list[i] = name /\ \A j \in DOMAIN jump_list : jump_list[j] = name => i <= j
Count(q, x) == Cardinality({i \in DOMAIN q : q[i] = x})

\* C5: after parse_main the registry's specifications are a permutation of
\* those of `keys`; every one the jump list names precedes every one it does
\* not name; those it names are in the order of their first position in the
\* jump list; those it does not name keep their relative order from `keys`;
\* jump list [b, a] on keys [a, b, c] gives [b, a, c].
C5_JumpOrder ==
    Built =>
        /\ Len(RegistryNames) = Len(cp.keys)
        /\ \A n \in SpecNames : Count(RegistryNames, n) = Count(cp.keys, n)
        /\ \A i, j \in DOMAIN RegistryNames :
              (i < j /\ Listed(RegistryNames[j])) =>
                  /\ Listed(RegistryNames[i])
                  /\ FirstPosition(RegistryNames[i]) <= FirstPosition(RegistryNames[j])
        /\ SelectSeq(RegistryNames, LAMBDA n : ~Listed(n))
             = SelectSeq(cp.keys, LAMBDA n : ~Listed(n))
        /\ (jump_list = <<"b", "a">> /\ cp.keys = <<"a", "b", "c">>) =>
              RegistryNames = <<"b", "a", "c">>

\* keys [a, b, c] sorted under jump list [b, a]
C5_Witness ==
    /\ Built /\ jump_list = <<"b", "a">> /\ cp.keys = <<"a", "b", "c">>
    /\ RegistryNames = <<"b", "a", "c">>

----------------------------------------------------------------------------
(* Claims about the run, checked under Spec *)

\* the positions in the log of the commands printed or run, of the processes run
CommandEvents == {k \in DOMAIN log : log[k].ev \in {"print", "run"}}
RunEvents == {k \in DOMAIN log : log[k].ev = "run"}
HookEvents == {k \in DOMAIN log : log[k].ev = "hook"}

\* the intervals of the registry whose window holds instant t
MatchingAt(t) == {m \in DOMAIN downloads.intervals : match(downloads.intervals[m].interval, t)}

\* the value that follows the flag --key in an argument vector, None when the flag is not there
Emitted(args, key) ==
    IF \E i \in DOMAIN args : args[i] = "--" \o key
    THEN LET i == CHOOSE i \in DOMAIN args :
                    args[i] = "--" \o key /\ \A j \in 1 .. i - 1 : args[j] # "--" \o key
         IN  IF i < Len(args) THEN args[i + 1] ELSE None
    ELSE None

\* a command has been built and is at hand: about to be run, or just printed
HasCommand == Built /\ cur.i # 0

\* C4: when interval overrides are active and exactly one interval matches the
\* instant the command is built at, every option key of the specification that
\* the interval's overrides define carries the interval's value in the merged
\* options and in the emitted flag, every other key of the specification keeps
\* the specification's value, and the timeout is the interval's duration(now)
\* in seconds.
C4_MergePrecedence ==
    (HasCommand /\ use_intervals /\ Cardinality(MatchingAt(cur.now)) = 1) =>
        LET spec == downloads.specs[cur.i]
            it == downloads.intervals[CHOOSE m \in MatchingAt(cur.now) : TRUE]
        IN  /\ \A p \in DOMAIN spec.extra :
                  LET key == spec.extra[p][1]
                      expected == IF HasKey(it.remaining, key) THEN Get(it.remaining, key)
                                  ELSE spec.extra[p][2]
                  IN  /\ Get(cur.extra, key) = expected
                      /\ IF expected = IS_FLAG_VALUE
                         THEN \E i \in DOMAIN cur.args : cur.args[i] = "--" \o key
                         ELSE Emitted(cur.args, key) = expected
            /\ cur.has_timeout
            /\ cur.timeout = ((it.interval.to_dt.v - cur.now) % Day) * SecondsPerUnit

\* section a (rate=2M, format=best) built while night (rate=500K) matches
C4_Witness ==
    /\ HasCommand /\ use_intervals /\ Cardinality(MatchingAt(cur.now)) = 1
    /\ downloads.specs[cur.i].name = "a"
    /\ downloads.intervals[CHOOSE m \in MatchingAt(cur.now) : TRUE].name = "night"
    /\ Emitted(cur.args, "rate") = "500K"
    /\ Emitted(cur.args, "format") = "best"
    /\ cur.now = 0 /\ cur.timeout = 3600

\* C6 (as amended): with interval overrides active, no command is built at an
\* instant two or more intervals match: the run raises the ambiguity error
\* instead, before the specification it was building the command of is printed
\* or invoked, and nothing is invoked afterwards; specifications built at
\* earlier instants of the run may have been invoked already.
C6_AmbiguityFatal ==
    Built =>
        /\ use_intervals =>
              /\ \A k \in CommandEvents : Cardinality(MatchingAt(log[k].now)) <= 1
              /\ pc = "run" => Cardinality(MatchingAt(cur.now)) <= 1
        /\ err = MultipleMatching =>
              /\ pc = "error"
              /\ use_intervals
              /\ Cardinality(MatchingAt(now)) >= 2
              /\ \A k \in DOMAIN log : log[k].i < idx

\* C6 as stated: when the ambiguity error is raised no process has been invoked before.
C6_AsStated ==
    Built =>
        /\ use_intervals => \A k \in CommandEvents : Cardinality(MatchingAt(log[k].now)) <= 1
        /\ err = MultipleMatching => RunEvents = {}

\* the ambiguity error is raised
C6_Witness ==
    /\ err = MultipleMatching /\ pc = "error" /\ Cardinality(MatchingAt(now)) = 2

\* a line without its leading and trailing whitespace is blank or starts with #
Visible(line) == {i \in DOMAIN line : line[i] \notin Whitespace}
BlankOrComment(line) ==
    \/ Visible(line) = {}
    \/ line[CHOOSE i \in Visible(line) : \A j \in Visible(line) : i <= j] = "#"

Inert(spec) ==
    /\ spec.urls = None
    /\ \/ ~HasKey(spec.extra, "batch")
       \/ \A n \in DOMAIN Files[Get(spec.extra, "batch")] :
             BlankOrComment(Files[Get(spec.extra, "batch")][n])

Eligible(spec) == spec.enabled = "True" /\ ~Inert(spec)

Interrupted == \E k \in RunEvents : log[k].out = "interrupt"

\* C9: every specification a command is built, printed or executed for is
\* enabled and not inert; commands follow the order of the registry; and a run
\* that ends without an interrupt or an error has reached every enabled
\* specification that is not inert.
C9_OnlyEligible ==
    Built =>
        /\ \A k \in CommandEvents : Eligible(downloads.specs[log[k].i])
        /\ HasCommand => Eligible(downloads.specs[cur.i])
        /\ \A k1, k2 \in CommandEvents : k1 < k2 => log[k1].i < log[k2].i
        /\ (pc = "done" /\ ~Interrupted) =>
              \A i \in DOMAIN downloads.specs :
                  Eligible(downloads.specs[i]) => \E k \in CommandEvents : log[k].i = i

\* a run passes over a specification whose batch file holds only blank and
\* comment lines and invokes the one after it
C9_Witness ==
    /\ pc = "done" /\ ~Interrupted
    /\ \E i \in DOMAIN downloads.specs :
          /\ downloads.specs[i].name = "c"
          /\ downloads.specs[i].enabled = "True"
          /\ \A k \in CommandEvents : log[k].i # i
          /\ \E k \in RunEvents : log[k].i > i

\* the first specification after position i that is enabled and not inert, 0 when there is none
NextEligible(i) ==
    IF \E j \in DOMAIN downloads.specs : j > i /\ Eligible(downloads.specs[j])
    THEN CHOOSE j \in DOMAIN downloads.specs :
            /\ j > i /\ Eligible(downloads.specs[j])
            /\ \A m \in DOMAIN downloads.specs :
                  (m > i /\ Eligible(downloads.specs[m])) => j <= m
    ELSE 0

\* C7: after a timeout the hook is not invoked for that specification, the
\* specification is not invoked again, and the loop goes on to the next
\* eligible specification; after an interrupt nothing more is invoked, no
\* process and no hook; every specification is invoked at most once.
C7_TimeoutAndInterrupt ==
    Built =>
        /\ \A k \in RunEvents : log[k].out = "timeout" =>
              /\ \A h \in HookEvents : log[h].i # log[k].i
              /\ k = Len(log) =>
                    /\ pc \in {"loop", "run", "done", "error"}
                    /\ idx > log[k].i
                    /\ pc \in {"run", "error"} => idx = NextEligible(log[k].i)
                    /\ pc = "done" => NextEligible(log[k].i) = 0
              /\ k < Len(log) =>
                    /\ log[k + 1].ev = "run"
                    /\ log[k + 1].i = NextEligible(log[k].i)
        /\ \A k \in RunEvents : log[k].out = "interrupt" => (k = Len(log) /\ pc = "done")
        /\ \A k1, k2 \in RunEvents : log[k1].i = log[k2].i => k1 = k2

\* a specification times out and the next one is invoked
C7_Witness ==
    \E k \in RunEvents :
        /\ log[k].out = "timeout" /\ k < Len(log) /\ log[k + 1].ev = "run"
        /\ ~no_rtouch

\* C8 (as amended): when the process cannot be launched the failure ends the
\* run: nothing is invoked after it, no process and no hook. A non-zero exit
\* status is not a failure to the loop: the hook, when enabled, is invoked for
\* the specification and the loop goes on.
C8_LaunchFailureFatal ==
    Built =>
        \A k \in RunEvents :
            /\ log[k].out = "oserror" => (k = Len(log) /\ pc = "error" /\ err = "OSError")
            /\ log[k].out = "exit1" =>
                  /\ k = Len(log) => err # "OSError"
                  /\ ~no_rtouch =>
                        \/ k = Len(log) /\ pc = "hook" /\ idx = log[k].i
                        \/ k < Len(log) /\ log[k + 1].ev = "hook" /\ log[k + 1].i = log[k].i
                  /\ no_rtouch =>
                        /\ k = Len(log) =>
                              (idx > log[k].i /\ pc \in {"loop", "run", "done", "error"})
                        /\ k < Len(log) => log[k + 1].i = NextEligible(log[k].i)

\* C8 as stated: a non-zero exit status or a failed launch ends the run, with
\* nothing invoked after it, neither a later specification nor the hook.
C8_AsStated ==
    Built =>
        \A k \in RunEvents :
            log[k].out \in {"exit1", "oserror"} =>
                (pc = "error" /\ \A h \in DOMAIN log : h > k => log[h].i # log[k].i)

\* a process exits with a non-zero status, the hook runs and the next specification is invoked
C8_Witness ==
    \E k \in RunEvents :
        /\ log[k].out = "exit1"
        /\ k + 1 < Len(log)
        /\ log[k + 1].ev = "hook"
        /\ log[k + 2].ev = "run"

\* the keys a section of the config defines itself
OwnKeys(name) == {Sections[name][i][1] : i \in DOMAIN Sections[name]}

\* C10 as stated: an interval's overrides hold only keys of the interval's own
\* section, without from, to and output; so a key a specification defines
\* itself and the root section defines too is emitted with the specification's
\* value whenever the section of the matching interval, if one matches, does
\* not define it.
C10_AsStated ==
    Built =>
        /\ \A m \in DOMAIN downloads.intervals :
              \A p \in DOMAIN downloads.intervals[m].remaining :
                  downloads.intervals[m].remaining[p][1]
                      \in OwnKeys(downloads.intervals[m].name) \ {"from", "to", "output"}
        /\ HasCommand =>
              LET name == downloads.specs[cur.i].name
                  matching == IF use_intervals THEN MatchingAt(cur.now) ELSE {}
              IN  \A key \in (OwnKeys(name) \ {"enabled", "urls"}) :
                      (/\ HasKey(Defaults, key)
                       /\ \A m \in matching : key \notin OwnKeys(downloads.intervals[m].name))
                      => Emitted(cur.args, key) = Get(Sections[name], key)

====
